---- MODULE Spec2Model ----
(***************************************************************************)
(* Model of src/src/builder.rs: PrefixTreeMapBuilder, the mutable          *)
(* construction tree of Rc<NodeBuilder> nodes, insert / insert_exact,      *)
(* the derived Clone of the builder, and the consuming build.              *)
(*                                                                         *)
(* A construction node is the record                                       *)
(*   [key_part, value, children, strong, value_flag, children_flag]        *)
(* where key_part and value are options, children is an option holding    *)
(* the BinaryHeap's backing array (a sequence of nodes in heap layout),    *)
(* strong is the strong count of the Rc that owns the node, and the two    *)
(* flags are the borrow flags of the value and children RefCells (0 free,  *)
(* n > 0 shared borrows, -1 one mutable borrow).  Nodes                    *)
(* below a root are owned by their parent's heap alone between two calls,  *)
(* so the tree is kept as a nested value; a root is an allocation that     *)
(* several builders may point at (derive(Clone) clones the Rc), so roots   *)
(* live in a table indexed by allocation.                                  *)
(***************************************************************************)
EXTENDS Integers, Sequences, FiniteSets, TLC

\* ------------------------------------------------------------------ bounds
\* Nodes (roots included) that may exist at once, over all construction
\* trees and the finished tree.  Keys longer than the free room are not fed.
MaxNodes == 3

\* Nodes a construction tree may have while more than one builder owns it.
MaxSharedNodes == 2

\* Builder variables of the calling program, and root allocations (one
\* construction tree at a time; two builders exist together by clone).
Handles == {1, 2}
Roots == {1}

\* The alphabet E, the wildcard weights W, and the values V.
E == {1, 2}
W == {0, 1}
V == {1, 2}

\* ------------------------------------------------------------------ options
None == [some |-> FALSE]
Some(x) == [some |-> TRUE, val |-> x]

\* ------------------------------------------------------------------ KeyPart
Exact(e) == [cat |-> "Exact", p |-> e]
Wildcard(w) == [cat |-> "Wildcard", p |-> w]
KeyParts == {Exact(e) : e \in E} \cup {Wildcard(w) : w \in W}

is_wildcard(kp) == kp.cat = "Wildcard"

\* Category first, then the payload's own order.  Exact ranks below Wildcard
\* here (the order in which the two categories are listed); nothing below
\* depends on which category is the lower one.
CategoryRank(cat) == IF cat = "Exact" THEN 0 ELSE 1

KeyPartLess(a, b) ==
    \/ CategoryRank(a.cat) < CategoryRank(b.cat)
    \/ a.cat = b.cat /\ a.p < b.p

KeyPartLeq(a, b) == a = b \/ KeyPartLess(a, b)

\* ------------------------------------------------------------------ NodeBuilder
\* Ord / PartialEq of NodeBuilder delegate to key_part (an Option: None is
\* below every Some).
OptKeyPartLeq(a, b) ==
    IF ~a.some THEN TRUE
    ELSE IF ~b.some THEN FALSE
    ELSE KeyPartLeq(a.val, b.val)

NodeBuilder_cmp_le(a, b) == OptKeyPartLeq(a.key_part, b.key_part)

NodeBuilder_eq(a, b) == a.key_part = b.key_part

\* The node made as the root is made: no key part.
NodeBuilder_new_no_key_part(kp) ==
    [key_part |-> None, value |-> None, children |-> None,
     strong |-> 1, value_flag |-> 0, children_flag |-> 0]

\* The node made with its heap allocated at once, empty.
NodeBuilder_new_eager(kp) ==
    [key_part |-> Some(kp), value |-> None, children |-> Some(<<>>),
     strong |-> 1, value_flag |-> 0, children_flag |-> 0]

\* NodeBuilder::new(key_part), wrapped in Rc::new: one owner.
NodeBuilder_new(kp) ==
    [key_part |-> Some(kp), value |-> None, children |-> None,
     strong |-> 1, value_flag |-> 0, children_flag |-> 0]

\* The root node made by PrefixTreeMapBuilder::new.
RootNode ==
    [key_part |-> None, value |-> None, children |-> None,
     strong |-> 1, value_flag |-> 0, children_flag |-> 0]

\* ------------------------------------------------------------------ BinaryHeap
Swap(s, i, j) == [s EXCEPT ![i] = s[j], ![j] = s[i]]

\* sift_up: the element at pos climbs while it is greater than its parent.
RECURSIVE sift_up(_, _)
sift_up(s, pos) ==
    IF pos = 1 THEN s
    ELSE LET parent == pos \div 2 IN
         IF NodeBuilder_cmp_le(s[pos], s[parent]) THEN s
         ELSE sift_up(Swap(s, pos, parent), parent)

heap_push(s, x) == sift_up(Append(s, x), Len(s) + 1)

\* peek: index of the greatest element, 0 for an empty heap.
heap_peek(s) == IF Len(s) = 0 THEN 0 ELSE 1

\* iter().find(|child| child.key_part == Some(&key_part)): the first index in
\* array order whose key part equals kp, 0 when there is none.
heap_find(s, kp) ==
    LET hits == {i \in 1..Len(s) : s[i].key_part = Some(kp)} IN
    IF hits = {} THEN 0 ELSE CHOOSE i \in hits : \A j \in hits : i <= j

\* into_sorted_vec: the elements in ascending order.
RemoveAt(s, i) == SubSeq(s, 1, i - 1) \o SubSeq(s, i + 1, Len(s))

MinIndex(s) ==
    LET mins == {i \in 1..Len(s) : \A j \in 1..Len(s) : NodeBuilder_cmp_le(s[i], s[j])} IN
    CHOOSE i \in mins : \A j \in mins : i <= j

RECURSIVE into_sorted_vec(_)
into_sorted_vec(s) ==
    IF Len(s) = 0 THEN <<>>
    ELSE LET i == MinIndex(s) IN <<s[i]>> \o into_sorted_vec(RemoveAt(s, i))

\* ------------------------------------------------------------------ RefCell
\* The borrow flag of one cell under a sequence of borrow operations;
\* BorrowError once a borrow panics (already mutably borrowed / already
\* borrowed).
BorrowError == 100

cell_step(flag, op) ==
    IF flag = BorrowError THEN BorrowError
    ELSE IF op = "borrow" THEN (IF flag < 0 THEN BorrowError ELSE flag + 1)
    ELSE IF op = "borrow_mut" THEN (IF flag # 0 THEN BorrowError ELSE -1)
    ELSE IF op = "drop_ref" THEN flag - 1
    ELSE 0

RECURSIVE cell_run(_, _)
cell_run(flag, ops) ==
    IF ops = <<>> THEN flag ELSE cell_run(cell_step(flag, Head(ops)), Tail(ops))

\* ------------------------------------------------------------------ insert
Ok(n) == [panic |-> FALSE, node |-> n]
Panic == [panic |-> TRUE]

\* The borrows insert takes on the cursor node's cells, in program order.
\* Line 58: the borrow() of the if condition ends with the condition.
borrows_is_none == <<"borrow", "drop_ref">>
\* Lines 62 and 64: a borrow_mut() for the store, then a borrow() for peek,
\* each a temporary of its statement.
borrows_first_child_guard_kept == <<"borrow_mut", "borrow", "drop_ref", "drop_mut">>

borrows_first_child == <<"borrow_mut", "drop_mut", "borrow", "drop_ref">>
\* Lines 68 and 76 / 88: children_ref is held until mem::drop.
borrows_children_ref == <<"borrow_mut", "drop_mut">>
\* Line 94: the borrow_mut() of the value cell, a temporary.
borrows_value == <<"borrow_mut", "drop_mut">>

\* Lines 71-74: the scan of the existing children for an equal key part.
find_child_head_only(children, key_part) ==
    IF Len(children) > 0 /\ children[1].key_part = Some(key_part) THEN 1 ELSE 0

find_child_by_category(children, key_part) ==
    LET hits == {i \in 1..Len(children) :
                    children[i].key_part.val.cat = key_part.cat} IN
    IF hits = {} THEN 0 ELSE CHOOSE i \in hits : \A j \in hits : i <= j

find_child_none(children, key_part) == 0

find_child(children, key_part) == heap_find(children, key_part)

\* Lines 82-86: the scan that finds the child just pushed.
find_pushed_peek(children, key_part) == heap_peek(children)

find_pushed(children, key_part) == heap_find(children, key_part)

\* Line 94: *node.value.borrow_mut() = Some(value).
store_value_keep_first(node, value) ==
    IF node.value.some THEN node ELSE [node EXCEPT !.value = Some(value)]

store_value(node, value) == [node EXCEPT !.value = Some(value)]

\* Line 58: node.children.borrow().is_none().
children_is_none_by_value(node) == ~node.value.some

children_is_none(node) == ~node.children.some

\* The loop of insert from the cursor `node` on (the cursor's own Rc clone
\* is counted in node.strong), then the store of line 94.  The result is
\* the node once the cursor has moved on or gone out of scope, or Panic
\* when an unwrap or a borrow fails.
RECURSIVE insert_walk(_, _, _)
insert_walk(node, key, value) ==
    IF key = <<>>
    THEN LET f == cell_run(node.value_flag, borrows_value) IN
         IF f = BorrowError THEN Panic
         ELSE Ok([store_value(node, value) EXCEPT !.value_flag = f,
                                                  !.strong = @ - 1])
    ELSE
    LET key_part == Head(key)
        f1 == cell_run(node.children_flag, borrows_is_none)
        \* node = child: the child's Rc is cloned, the walk goes on from it,
        \* and the old cursor is dropped.
        Descend(children, i, f) ==
            LET r == insert_walk([children[i] EXCEPT !.strong = @ + 1],
                                 Tail(key), value) IN
            IF r.panic THEN Panic
            ELSE Ok([node EXCEPT !.children = Some([children EXCEPT ![i] = r.node]),
                                 !.children_flag = f,
                                 !.strong = @ - 1])
    IN
    IF f1 = BorrowError THEN Panic
    ELSE IF children_is_none(node)
    THEN LET children == heap_push(<<>>, NodeBuilder_new(key_part))
             f2 == cell_run(f1, borrows_first_child)
             i == heap_peek(children)
         IN IF f2 = BorrowError \/ i = 0 THEN Panic
            ELSE Descend(children, i, f2)
    ELSE LET f2 == cell_run(f1, borrows_children_ref)
             \* line 69: children_ref.as_mut().unwrap()
             children == node.children.val
             i == find_child(children, key_part)
         IN IF f2 = BorrowError \/ ~node.children.some THEN Panic
            ELSE IF i # 0 THEN Descend(children, i, f2)
            ELSE LET pushed == heap_push(children, NodeBuilder_new(key_part))
                     j == find_pushed(pushed, key_part)
                 IN IF j = 0 THEN Panic ELSE Descend(pushed, j, f2)

\* Lines 51-56: the wildcard parts of the key.
wildcard_depth_flag(key) ==
    IF \E i \in 1..Len(key) : is_wildcard(key[i]) THEN 1 ELSE 0

wildcard_depth_from_one(key) ==
    1 + Cardinality({i \in 1..Len(key) : is_wildcard(key[i])})

RECURSIVE wildcard_depth(_)
wildcard_depth(key) ==
    IF key = <<>> THEN 0
    ELSE (IF is_wildcard(Head(key)) THEN 1 ELSE 0) + wildcard_depth(Tail(key))

Max(a, b) == IF a >= b THEN a ELSE b

\* ------------------------------------------------------------------ build
\* Node is [key_part, value, children], children an option of a sequence.
\* Lines 118-120: children.into_sorted_vec().into_iter().
sorted_children_heap_order(children) == children

sorted_children_drop_last(children) ==
    LET v == into_sorted_vec(children) IN SubSeq(v, 1, Len(v) - 1)

sorted_children(children) == into_sorted_vec(children)

RECURSIVE node_builder_to_node(_)
node_builder_to_node(node_builder) ==
    IF node_builder.strong # 1 THEN Panic
    ELSE
    LET sorted == IF node_builder.children.some
                  THEN sorted_children(node_builder.children.val) ELSE <<>>
        subs == [i \in 1..Len(sorted) |-> node_builder_to_node(sorted[i])]
    IN IF \E i \in 1..Len(sorted) : subs[i].panic THEN Panic
       ELSE Ok([key_part |-> node_builder.key_part,
                value |-> node_builder.value,
                children |-> IF node_builder.children.some
                             THEN Some([i \in 1..Len(sorted) |-> subs[i].node])
                             ELSE None])

\* ------------------------------------------------------------------ trees
\* Helpers over a construction node or a finished node.
Kids(n) == IF n.children.some THEN n.children.val ELSE <<>>

RECURSIVE NodeCount(_)
RECURSIVE SumCounts(_, _)
SumCounts(s, i) == IF i > Len(s) THEN 0 ELSE NodeCount(s[i]) + SumCounts(s, i + 1)
NodeCount(n) == 1 + SumCounts(Kids(n), 1)

\* The node reached from n along key, None when there is none.
RECURSIVE NodeAt(_, _)
NodeAt(n, key) ==
    IF key = <<>> THEN Some(n)
    ELSE LET i == heap_find(Kids(n), Head(key)) IN
         IF i = 0 THEN None ELSE NodeAt(Kids(n)[i], Tail(key))

RECURSIVE SeqsOfLen(_, _)
SeqsOfLen(S, n) ==
    IF n = 0 THEN {<<>>}
    ELSE {<<x>> \o s : x \in S, s \in SeqsOfLen(S, n - 1)}

SeqsUpTo(S, n) == UNION {SeqsOfLen(S, k) : k \in 0..n}

\* ------------------------------------------------------------------ state
VARIABLES
    roots,      \* root allocation -> option of the construction tree it owns
    builders,   \* handle -> option of [root, max_wildcard_depth]
    finished,   \* option of the PrefixTreeMap the last build returned
    panic,      \* "none", or the operation that panicked
    last,       \* history: root -> {<<key, value>>}, the latest value per key
    inserted,   \* history: handle -> the wildcard-part counts of the keys
                \* inserted through this builder value (a clone starts with
                \* those of the builder it was cloned from)
    consumed    \* history: option of the construction tree the last build took

vars == <<roots, builders, finished, panic, last, inserted, consumed>>

LiveRoots == {r \in Roots : roots[r].some}
LiveHandles == {h \in Handles : builders[h].some}

\* Nodes in existence.
NodesInUse ==
    LET RECURSIVE Sum(_)
        Sum(R) == IF R = {} THEN 0
                  ELSE LET r == CHOOSE x \in R : TRUE IN
                       NodeCount(roots[r].val) + Sum(R \ {r})
    IN Sum(LiveRoots) + (IF finished.some THEN NodeCount(finished.val.root) ELSE 0)

FreeNodes == MaxNodes - NodesInUse

\* The keys insert can take below n with `free` nodes of room left: those
\* for which it creates at most `free` nodes.
RECURSIVE FittingKeys(_, _)
FittingKeys(n, free) ==
    {<<>>} \cup UNION {
        LET i == heap_find(Kids(n), kp) IN
        IF i # 0 THEN {<<kp>> \o k : k \in FittingKeys(Kids(n)[i], free)}
        ELSE IF free >= 1 THEN {<<kp>> \o k : k \in SeqsUpTo(KeyParts, free - 1)}
        ELSE {}
      : kp \in KeyParts}

\* The sequences over E whose Exact wrapping is in Ks.
ExactKeysOf(Ks) ==
    {[i \in 1..Len(k) |-> k[i].p] :
        k \in {x \in Ks : \A i \in 1..Len(x) : ~is_wildcard(x[i])}}

Min(a, b) == IF a <= b THEN a ELSE b

\* The room insert has through builder h.
Room(h) ==
    LET n == roots[builders[h].val.root].val IN
    IF n.strong > 1 THEN Min(FreeNodes, MaxSharedNodes - NodeCount(n))
    ELSE FreeNodes

InsertableKeys(h) ==
    IF builders[h].some
    THEN FittingKeys(roots[builders[h].val.root].val, Room(h)) ELSE {}

Init ==
    /\ roots = [r \in Roots |-> None]
    /\ builders = [h \in Handles |-> None]
    /\ finished = None
    /\ panic = "none"
    /\ last = [r \in Roots |-> {}]
    /\ inserted = [h \in Handles |-> {}]
    /\ consumed = None

\* PrefixTreeMapBuilder::new, bound to the builder variable h.
new(h) ==
    /\ panic = "none"
    /\ ~builders[h].some
    /\ FreeNodes >= 1
    /\ \E r \in Roots :
        /\ ~roots[r].some
        /\ \A q \in Roots : ~roots[q].some => r <= q
        /\ roots' = [roots EXCEPT ![r] = Some(RootNode)]
        /\ builders' = [builders EXCEPT
                           ![h] = Some([root |-> r, max_wildcard_depth |-> 0])]
        /\ last' = [last EXCEPT ![r] = {}]
    /\ inserted' = [inserted EXCEPT ![h] = {}]
    /\ UNCHANGED <<finished, panic, consumed>>

\* Default::default is Self::new().
default(h) == new(h)

\* The derived Clone of the builder: the root Rc is cloned (one more owner
\* of the same allocation), max_wildcard_depth is copied.
clone(h, h2) ==
    /\ panic = "none"
    /\ builders[h].some
    /\ ~builders[h2].some
    /\ NodeCount(roots[builders[h].val.root].val) <= MaxSharedNodes
    /\ LET r == builders[h].val.root IN
       roots' = [roots EXCEPT ![r] = Some([roots[r].val EXCEPT !.strong = @ + 1])]
    /\ builders' = [builders EXCEPT ![h2] = builders[h]]
    /\ inserted' = [inserted EXCEPT ![h2] = inserted[h]]
    /\ UNCHANGED <<finished, panic, last, consumed>>

\* A builder value goes out of scope: its Rc is dropped, and the tree with
\* its last owner.
drop(h) ==
    /\ panic = "none"
    /\ builders[h].some
    /\ LET r == builders[h].val.root
           n == roots[r].val
       IN /\ roots' = [roots EXCEPT ![r] =
                          IF n.strong = 1 THEN None
                          ELSE Some([n EXCEPT !.strong = @ - 1])]
          /\ last' = [last EXCEPT ![r] = IF n.strong = 1 THEN {} ELSE @]
    /\ builders' = [builders EXCEPT ![h] = None]
    /\ inserted' = [inserted EXCEPT ![h] = {}]
    /\ UNCHANGED <<finished, panic, consumed>>

\* The number of wildcard-category parts of a key, counted by position.
WildcardParts(key) == Cardinality({i \in 1..Len(key) : key[i].cat = "Wildcard"})

\* insert(&mut self, key, value).
insert(h, key, value) ==
    /\ panic = "none"
    /\ builders[h].some
    /\ LET b == builders[h].val
           r == b.root
           \* line 50: the cursor starts as a clone of the root Rc
           out == insert_walk([roots[r].val EXCEPT !.strong = @ + 1], key, value)
       IN IF out.panic
          THEN /\ panic' = "insert"
               /\ UNCHANGED <<roots, builders, last, inserted>>
          ELSE /\ panic' = panic
               /\ roots' = [roots EXCEPT ![r] = Some(out.node)]
               /\ builders' = [builders EXCEPT ![h] = Some([b EXCEPT
                      !.max_wildcard_depth = Max(@, wildcard_depth(key))])]
               /\ last' = [last EXCEPT ![r] =
                      {kv \in @ : kv[1] # key} \cup {<<key, value>>}]
               /\ inserted' = [inserted EXCEPT ![h] = @ \cup {WildcardParts(key)}]
    /\ UNCHANGED <<finished, consumed>>

\* The elements wrapped in the other variant of KeyPart.
insert_exact_as_wildcard(h, key, value) ==
    insert(h, [i \in 1..Len(key) |-> Wildcard(key[i])], value)

\* insert_exact(&mut self, key, value): every element wrapped as Exact.
insert_exact(h, key, value) ==
    insert(h, [i \in 1..Len(key) |-> Exact(key[i])], value)

\* build(&self) in place of build(self): the nodes are copied out and the
\* builder and its construction tree stay usable.
build_by_ref(h) ==
    /\ panic = "none"
    /\ builders[h].some
    /\ ~finished.some
    /\ LET b == builders[h].val
           r == b.root
           out == node_builder_to_node(roots[r].val)
       IN IF out.panic
          THEN /\ panic' = "build"
               /\ UNCHANGED <<roots, builders, finished, last, inserted, consumed>>
          ELSE /\ panic' = panic
               /\ finished' = Some([root |-> out.node,
                                    max_wildcard_depth |-> b.max_wildcard_depth])
               /\ consumed' = Some([tree |-> roots[r].val, counts |-> inserted[h],
                                    last |-> last[r]])
               /\ UNCHANGED <<roots, builders, last, inserted>>

\* build(self): the builder is moved in; node_builder_to_node unwraps every
\* Rc or panics.
build(h) ==
    /\ panic = "none"
    /\ builders[h].some
    /\ ~finished.some
    /\ LET b == builders[h].val
           r == b.root
           out == node_builder_to_node(roots[r].val)
       IN IF out.panic
          THEN /\ panic' = "build"
               /\ UNCHANGED <<roots, builders, finished, last, inserted, consumed>>
          ELSE /\ panic' = panic
               /\ finished' = Some([root |-> out.node,
                                    max_wildcard_depth |-> b.max_wildcard_depth])
               /\ consumed' = Some([tree |-> roots[r].val, counts |-> inserted[h],
                                    last |-> last[r]])
               /\ roots' = [roots EXCEPT ![r] = None]
               /\ builders' = [builders EXCEPT ![h] = None]
               /\ last' = [last EXCEPT ![r] = {}]
               /\ inserted' = [inserted EXCEPT ![h] = {}]

\* The PrefixTreeMap goes out of scope.
drop_map ==
    /\ panic = "none"
    /\ finished.some
    /\ finished' = None
    /\ consumed' = None
    /\ UNCHANGED <<roots, builders, panic, last, inserted>>


Next ==
    \/ \E h \in Handles : new(h)
    \/ \E h \in Handles : default(h)
    \/ \E h, h2 \in Handles : clone(h, h2)
    \/ \E h \in Handles : drop(h)
    \/ \E h \in Handles, value \in V :
          \E key \in InsertableKeys(h) : insert(h, key, value)
    \/ \E h \in Handles, value \in V :
          \E key \in ExactKeysOf(InsertableKeys(h)) : insert_exact(h, key, value)
    \/ \E h \in Handles : build(h)
    \/ drop_map

Spec == Init /\ [][Next]_vars

\* ------------------------------------------------------------------ observers
\* The key-part paths from n to the nodes below it (n itself is <<>>).
RECURSIVE Paths(_)
Paths(n) ==
    {<<>>} \cup UNION {{<<Kids(n)[i].key_part.val>> \o p : p \in Paths(Kids(n)[i])}
                       : i \in 1..Len(Kids(n))}

\* Every node that lies at path key below n.
RECURSIVE NodesAt(_, _)
NodesAt(n, key) ==
    IF key = <<>> THEN {n}
    ELSE UNION {NodesAt(Kids(n)[i], Tail(key))
                : i \in {j \in 1..Len(Kids(n)) : Kids(n)[j].key_part = Some(Head(key))}}

\* How many nodes lie at path key below n.
RECURSIVE CountAt(_, _)
RECURSIVE CountAtFrom(_, _, _)
CountAtFrom(s, key, i) ==
    IF i > Len(s) THEN 0
    ELSE (IF s[i].key_part = Some(Head(key)) THEN CountAt(s[i], Tail(key)) ELSE 0)
         + CountAtFrom(s, key, i + 1)
CountAt(n, key) == IF key = <<>> THEN 1 ELSE CountAtFrom(Kids(n), key, 1)

Prefixes(key) == {SubSeq(key, 1, i) : i \in 0..Len(key)}
KeysOf(S) == {kv[1] : kv \in S}
PrefixClosure(S) == {<<>>} \cup UNION {Prefixes(k) : k \in KeysOf(S)}

\* The value the history gives path p: that of the latest insert of p.
Expected(S, p) ==
    IF \E kv \in S : kv[1] = p
    THEN Some((CHOOSE kv \in S : kv[1] = p)[2]) ELSE None

TreeOf(h) == roots[builders[h].val.root].val

AllNodes(n) == UNION {NodesAt(n, p) : p \in Paths(n)}

IsProperPrefix(p, k) == Len(p) < Len(k) /\ SubSeq(k, 1, Len(p)) = p

SetMax(S) == IF S = {} THEN 0 ELSE CHOOSE m \in S : \A x \in S : x <= m

\* The key parts of P in ascending order.
RECURSIVE AscendingParts(_)
AscendingParts(P) ==
    IF P = {} THEN <<>>
    ELSE LET m == CHOOSE x \in P : \A y \in P : KeyPartLeq(x, y) IN
         <<m>> \o AscendingParts(P \ {m})

\* The finished tree of an association S of keys to values, below path p:
\* one node per prefix, children in ascending key-part order.  It is a
\* function of the set S alone.
RECURSIVE CanonNode(_, _)
CanonNode(S, p) ==
    LET parts == {k[Len(p) + 1] : k \in {x \in KeysOf(S) : IsProperPrefix(p, x)}}
        order == AscendingParts(parts)
    IN [key_part |-> IF p = <<>> THEN None ELSE Some(p[Len(p)]),
        value |-> Expected(S, p),
        children |-> IF parts = {} THEN None
                     ELSE Some([i \in 1..Len(order) |-> CanonNode(S, p \o <<order[i]>>)])]

\* ------------------------------------------------------------------ claims

\* C1: after any sequence of inserts, the paths of the construction tree are
\* exactly the prefixes (the empty one included) of the inserted keys, and
\* the node at path p holds the value of the latest insert of p, or none.
C1_PathsAreInsertedPrefixes ==
    \A r \in LiveRoots :
        LET t == roots[r].val IN
        /\ Paths(t) = PrefixClosure(last[r])
        /\ \A p \in Paths(t) : \A m \in NodesAt(t, p) : m.value = Expected(last[r], p)

\* [Exact 1, Wildcard 0] was inserted, last with value 2; the node Exact 1
\* exists as a prefix only and holds no value.
C1_Witness ==
    \E r \in LiveRoots :
        /\ last[r] = {<< <<Exact(1), Wildcard(0)>>, 2 >>}
        /\ NodeAt(roots[r].val, <<Exact(1)>>).some
        /\ ~NodeAt(roots[r].val, <<Exact(1)>>).val.value.some
        /\ NodeAt(roots[r].val, <<Exact(1), Wildcard(0)>>).val.value = Some(2)

\* C2: insert(k, v2) on a state reached by insert(k, v1) leaves exactly one
\* node at path k, with value v2, and creates no node: the node count of
\* the tree and of every path is unchanged.
C2_OverwriteCreatesNoNode ==
    [][\A h \in LiveHandles :
         LET r == builders[h].val.root IN
         \A k \in KeysOf(last[r]), v2 \in V :
            (/\ <<k, v2>> \in last'[r]
             /\ insert(h, k, v2))
            => /\ roots'[r].some
               /\ CountAt(roots'[r].val, k) = 1
               /\ \A m \in NodesAt(roots'[r].val, k) : m.value = Some(v2)
               /\ NodeCount(roots'[r].val) = NodeCount(roots[r].val)
               /\ Paths(roots'[r].val) = Paths(roots[r].val)
               /\ \A p \in Paths(roots[r].val) :
                     CountAt(roots'[r].val, p) = CountAt(roots[r].val, p)]_vars

\* insert(k, 1) has acted on a key whose node is not the head of its heap,
\* and the builder is there for the second insert.
C2_Witness ==
    \E h \in LiveHandles :
        /\ panic = "none"
        /\ Len(Kids(TreeOf(h))) = 2
        /\ \E kv \in last[builders[h].val.root] :
              /\ kv[2] = 1
              /\ kv[1] = <<Kids(TreeOf(h))[2].key_part.val>>

\* C3: the tree build returns is the same whatever the order of the insert
\* calls: it is the tree determined by the association of keys to values
\* alone (same nodes, same values, same parent/child structure), also when a
\* key and one of its proper prefixes were both inserted.
C3_BuildIsOrderIndependent ==
    finished.some => finished.val.root = CanonNode(consumed.val.last, <<>>)

\* A tree was built from a key, a proper prefix of it and a sibling, all
\* with values.
C3_Witness ==
    /\ finished.some
    /\ Len(Kids(finished.val.root)) = 2
    /\ Cardinality(KeysOf(consumed.val.last)) = 3
    /\ \E k, q \in KeysOf(consumed.val.last) : IsProperPrefix(q, k)

\* C4: a builder's max_wildcard_depth, and that of the map build returns, is
\* the maximum number of wildcard parts over the keys inserted through the
\* builder (0 when there is none or all are exact), and no insert lowers it.
C4_DepthIsMaxOverInserted ==
    /\ \A h \in LiveHandles :
          builders[h].val.max_wildcard_depth = SetMax(inserted[h])
    /\ finished.some =>
          finished.val.max_wildcard_depth = SetMax(consumed.val.counts)

C4_NeverDecreases ==
    \A h \in LiveHandles :
        builders'[h].some =>
            builders'[h].val.max_wildcard_depth >= builders[h].val.max_wildcard_depth

C4_MaxWildcardDepth == []C4_DepthIsMaxOverInserted /\ [][C4_NeverDecreases]_vars

\* Keys of 0, 1 and 2 wildcard parts went through one builder.
C4_Witness ==
    \E h \in LiveHandles :
        /\ inserted[h] = {0, 1, 2}
        /\ builders[h].val.max_wildcard_depth = 2

\* C5 as stated: the children of every finished node are in non-increasing
\* key-part order.
C5_ChildrenDescending ==
    finished.some =>
        \A n \in AllNodes(finished.val.root) :
            \A i \in 1..(Len(Kids(n)) - 1) :
                OptKeyPartLeq(Kids(n)[i + 1].key_part, Kids(n)[i].key_part)

\* C5, amended: the children of every finished node are in non-decreasing
\* key-part order (into_sorted_vec sorts ascending).
C5_ChildrenAscending ==
    finished.some =>
        \A n \in AllNodes(finished.val.root) :
            \A i \in 1..(Len(Kids(n)) - 1) :
                OptKeyPartLeq(Kids(n)[i].key_part, Kids(n)[i + 1].key_part)

\* A finished root with two children, built from a heap whose array was
\* not in ascending order.
C5_Witness ==
    /\ finished.some
    /\ Len(Kids(finished.val.root)) = 2
    /\ Kids(consumed.val.tree)[1].key_part # Kids(finished.val.root)[1].key_part

\* C6: the finished tree has the paths of the construction tree build took,
\* the same value or absence of value and the same key part at every path,
\* children present where they were present, and every node converted once.
C6_BuildPreservesStructure ==
    finished.some =>
        LET f == finished.val.root
            t == consumed.val.tree
        IN /\ Paths(f) = Paths(t)
           /\ NodeCount(f) = NodeCount(t)
           /\ \A p \in Paths(t) :
                 /\ CountAt(f, p) = CountAt(t, p)
                 /\ {[key_part |-> m.key_part, value |-> m.value,
                      children |-> m.children.some] : m \in NodesAt(f, p)}
                    = {[key_part |-> m.key_part, value |-> m.value,
                        children |-> m.children.some] : m \in NodesAt(t, p)}

\* A tree of three nodes on two levels was built.
C6_Witness ==
    /\ finished.some
    /\ NodeCount(finished.val.root) = 3
    /\ \E p \in Paths(finished.val.root) : Len(p) = 2
    /\ finished.val.root.value.some

\* C7: no sequence of new, default, clone, insert, insert_exact and build
\* makes build fail on Rc::try_unwrap.
C7_BuildNeverPanics == panic # "build"

\* C8: insert runs to completion: no unwrap sees an absent value, no cell
\* is borrowed against a live borrow, and no borrow outlives the call.
C8_InsertNeverPanics ==
    /\ panic # "insert"
    /\ \A r \in LiveRoots : \A n \in AllNodes(roots[r].val) :
          n.value_flag = 0 /\ n.children_flag = 0

\* Inserts have run every unwrap: a first child was made and peeked, and a
\* second child was pushed beside it and found again; the value cells of
\* both and of the root were written.
C8_Witness ==
    \E r \in LiveRoots :
        /\ panic = "none"
        /\ Len(Kids(roots[r].val)) = 2
        /\ Cardinality(KeysOf(last[r])) = 3

\* C9: insert of the empty key with value v sets the root's value to v,
\* leaves the root without a key part, creates no node and no children
\* collection, and leaves max_wildcard_depth as it was.
C9_EmptyKeySetsRoot ==
    [][\A h \in LiveHandles, v \in V :
         LET r == builders[h].val.root IN
         (/\ <<(<<>>), v>> \in last'[r]
          /\ insert(h, <<>>, v))
         => /\ roots'[r].val.value = Some(v)
            /\ roots'[r].val.key_part = None
            /\ NodeCount(roots'[r].val) = NodeCount(roots[r].val)
            /\ roots'[r].val.children = roots[r].val.children
            /\ builders'[h].val.max_wildcard_depth
                 = builders[h].val.max_wildcard_depth]_vars

\* The empty key was inserted into a builder that has no child and no
\* children collection.
C9_Witness ==
    \E h \in LiveHandles :
        /\ TreeOf(h).value = Some(2)
        /\ ~TreeOf(h).children.some
        /\ builders[h].val.max_wildcard_depth = 0

\* C10: two inserted keys that share a prefix p and go on with different
\* parts a and b (another category or another payload) have two different
\* children of the node at p, one per part, each with the values and the
\* subtree of the keys that go through it.
C10_DistinctPartsAreSiblings ==
    \A r \in LiveRoots :
        LET t == roots[r].val
            closure == PrefixClosure(last[r])
        IN \A pa, pb \in closure :
            (/\ Len(pa) = Len(pb) /\ Len(pa) >= 1 /\ pa # pb
             /\ SubSeq(pa, 1, Len(pa) - 1) = SubSeq(pb, 1, Len(pb) - 1))
            => LET p == SubSeq(pa, 1, Len(pa) - 1)
                   a == pa[Len(pa)]
                   b == pb[Len(pb)]
               IN \A n \in NodesAt(t, p) :
                    \E i, j \in 1..Len(Kids(n)) :
                        /\ i # j
                        /\ Kids(n)[i].key_part = Some(a)
                        /\ Kids(n)[j].key_part = Some(b)
                        /\ Kids(n)[i].value = Expected(last[r], pa)
                        /\ Kids(n)[j].value = Expected(last[r], pb)
                        /\ Paths(Kids(n)[i])
                             = {SubSeq(k, Len(pa) + 1, Len(k)) :
                                  k \in {x \in closure : x = pa \/ IsProperPrefix(pa, x)}}
                        /\ Paths(Kids(n)[j])
                             = {SubSeq(k, Len(pb) + 1, Len(k)) :
                                  k \in {x \in closure : x = pb \/ IsProperPrefix(pb, x)}}

\* Wildcard(0) and Wildcard(1) were inserted under one parent with
\* different values.
C10_Witness ==
    \E r \in LiveRoots :
        /\ << <<Wildcard(0)>>, 1 >> \in last[r]
        /\ << <<Wildcard(1)>>, 2 >> \in last[r]
        /\ Len(Kids(roots[r].val)) = 2

\* The builders that own the construction tree at r.
OwnersOf(r) == {h \in LiveHandles : builders[h].val.root = r}

\* Every builder owns a construction tree that exists, and the strong count
\* of a root is the number of builders that own it.
C11_BuildersOwnLiveTrees ==
    /\ \A h \in LiveHandles : builders[h].val.root \in LiveRoots
    /\ \A r \in LiveRoots : roots[r].val.strong = Cardinality(OwnersOf(r))

\* A step in which build consumes the construction tree at r leaves no
\* builder that owns it and frees it.
C11_BuildConsumes ==
    \A r \in LiveRoots :
        (~finished.some /\ finished'.some /\ consumed'.val.tree = roots[r].val)
        => /\ ~roots'[r].some
           /\ \A h \in Handles :
                 ~(builders'[h].some /\ builders'[h].val.root = r)

\* C11: build is single-use.  An insert or a build acts on the tree of a
\* builder that exists; the step in which build consumes a construction
\* tree leaves no builder owning it, so no later insert or build reads or
\* changes a node of it.
C11_BuildIsSingleUse ==
    []C11_BuildersOwnLiveTrees /\ [][C11_BuildConsumes]_vars

\* A map was built, and after it a new builder was made and inserted into.
C11_Witness ==
    /\ finished.some
    /\ \E h \in LiveHandles : Len(Kids(TreeOf(h))) = 1
\* map(Exact, key), and the payloads of a key.
MapExact(key) == [i \in 1..Len(key) |-> [cat |-> "Exact", p |-> key[i]]]
Payloads(k) == [i \in 1..Len(k) |-> k[i].p]

\* C12: insert_exact(key, v) is insert(map(Exact, key), v): a step of
\* insert_exact is a step of insert on the wrapped key from the same state
\* (same tree, same max_wildcard_depth after it), it leaves the builder's
\* max_wildcard_depth as it was, and the value lies at the wrapped path.
C12_InsertExactIsInsertOfExact ==
    [][\A h \in LiveHandles :
         LET r == builders[h].val.root IN
         \A kv \in last'[r] :
            LET key == Payloads(kv[1])
                v == kv[2]
            IN
            (/\ last'[r] \ last[r] \subseteq {kv}
             /\ insert_exact(h, key, v))
            => /\ insert(h, MapExact(key), v)
               /\ builders'[h].val.max_wildcard_depth
                     = builders[h].val.max_wildcard_depth
               /\ CountAt(roots'[r].val, MapExact(key)) = 1
               /\ \A m \in NodesAt(roots'[r].val, MapExact(key)) :
                     m.value = Some(v)]_vars

\* A builder whose max_wildcard_depth is 1 holds the all-exact key
\* [Exact 2] with value 2 beside a key with a wildcard below it.
C12_Witness ==
    \E h \in LiveHandles :
        /\ builders[h].val.max_wildcard_depth = 1
        /\ NodeAt(TreeOf(h), <<Exact(2)>>).some
        /\ NodeAt(TreeOf(h), <<Exact(2)>>).val.value = Some(2)
        /\ Kids(TreeOf(h))[1].key_part = Some(Exact(2))
\* n and every node below it, whatever the key parts are.
RECURSIVE Descendants(_)
Descendants(n) ==
    {n} \cup UNION {Descendants(Kids(n)[i]) : i \in 1..Len(Kids(n))}

\* The construction trees, and the finished tree when there is one.
ConstructionTrees == {roots[r].val : r \in LiveRoots}
FinishedTrees == IF finished.some THEN {finished.val.root} ELSE {}

\* C13: in every construction tree, and in the finished tree, no node has
\* two children whose key parts compare equal.
C13_SiblingsAreUnique ==
    \A t \in ConstructionTrees \cup FinishedTrees :
        \A n \in Descendants(t) :
            \A i, j \in 1..Len(Kids(n)) :
                i # j => ~NodeBuilder_eq(Kids(n)[i], Kids(n)[j])

\* [Exact 1] and [Exact 1, Wildcard 1] were both inserted: the second
\* insert found the child Exact 1 and pushed no sibling.
C13_Witness ==
    \E r \in LiveRoots :
        /\ {<<Exact(1)>>, <<Exact(1), Wildcard(1)>>} \subseteq KeysOf(last[r])
        /\ Len(Kids(roots[r].val)) = 1
\* The key part of the root of t is absent, that of every other node is
\* present, and every non-empty prefix p of a key of S has a node at path p
\* whose key part is the last part of p.
KeyPartsInPlace(t, S) ==
    /\ ~t.key_part.some
    /\ \A n \in Descendants(t) :
          \A i \in 1..Len(Kids(n)) : Kids(n)[i].key_part.some
    /\ \A p \in PrefixClosure(S) \ {<<>>} :
          /\ NodeAt(t, p).some
          /\ NodeAt(t, p).val.key_part = Some(p[Len(p)])

\* C14: in every construction tree and in the finished tree, a node's key
\* part is absent exactly when the node is the root, and the node insert
\* made for a prefix of a key carries that prefix's last part.
C14_KeyPartAbsentIffRoot ==
    /\ \A r \in LiveRoots : KeyPartsInPlace(roots[r].val, last[r])
    /\ finished.some => KeyPartsInPlace(finished.val.root, consumed.val.last)

\* The empty key and [Wildcard 1, Exact 1] were inserted: the root holds a
\* value and two nodes with key parts lie below it.
C14_Witness ==
    \E r \in LiveRoots :
        /\ roots[r].val.value.some
        /\ NodeAt(roots[r].val, <<Wildcard(1), Exact(1)>>).some
\* In t, a children collection that is present holds at least one child,
\* and the node at path p has one exactly when a key of S extends p.
ChildrenLazy(t, S) ==
    \A p \in Paths(t) :
        \A n \in NodesAt(t, p) :
            /\ n.children.some => Len(n.children.val) >= 1
            /\ n.children.some <=> \E k \in KeysOf(S) : IsProperPrefix(p, k)

\* C15: children collections are allocated lazily and are never empty, in
\* every construction tree and in the finished tree: a leaf has children
\* absent, and a node has children present exactly when an inserted key
\* extends its path.
C15_ChildrenLazyNeverEmpty ==
    /\ \A r \in LiveRoots : ChildrenLazy(roots[r].val, last[r])
    /\ finished.some => ChildrenLazy(finished.val.root, consumed.val.last)

\* A map was built from a two-part key: the root and the middle node have
\* children, the leaf has none.
C15_Witness ==
    /\ finished.some
    /\ Len(Kids(finished.val.root)) = 1
    /\ Len(Kids(Kids(finished.val.root)[1])) = 1
    /\ ~Kids(Kids(finished.val.root)[1])[1].children.some
\* The values held at path p of t.
ValuesAt(t, p) == {m.value : m \in NodesAt(t, p)}

\* t is a tree: one node per path, and every node below the root is owned
\* by its parent's collection alone.
IsTree(t) ==
    /\ \A p \in Paths(t) : CountAt(t, p) = 1
    /\ \A n \in Descendants(t) :
          \A i \in 1..Len(Kids(n)) : Kids(n)[i].strong = 1

\* From tree t to tree t2 only the path k changed: no node was removed, no
\* value off k changed, no value was cleared, every new path is a prefix
\* of k, and t2 is a tree.
OnlyPathChanged(t, t2, k) ==
    /\ Paths(t) \subseteq Paths(t2)
    /\ Paths(t2) \ Paths(t) \subseteq Prefixes(k)
    /\ \A p \in Paths(t) :
          /\ p # k => ValuesAt(t2, p) = ValuesAt(t, p)
          /\ (\E x \in ValuesAt(t, p) : x.some)
                => \A x \in ValuesAt(t2, p) : x.some
    /\ IsTree(t2)

\* C16: insert(k, v) changes only what lies on the path k: every other
\* node keeps its value, no node is removed and no value cleared, the
\* nodes added are at prefixes of k, and the construction tree stays a
\* tree.
C16_InsertChangesOnlyItsPath ==
    [][\A h \in LiveHandles :
         LET r == builders[h].val.root IN
         \A k \in KeysOf(last'[r]), v \in V :
            (/\ <<k, v>> \in last'[r]
             /\ insert(h, k, v))
            => /\ roots'[r].some
               /\ OnlyPathChanged(roots[r].val, roots'[r].val, k)]_vars

\* A tree holding [Exact 1] with value 1 and [Exact 2] with value 2: the
\* later of the two inserts added a sibling and left the other value.
C16_Witness ==
    \E r \in LiveRoots :
        /\ last[r] = {<< <<Exact(1)>>, 1 >>, << <<Exact(2)>>, 2 >>}
        /\ ValuesAt(roots[r].val, <<Exact(1)>>) = {Some(1)}
        /\ ValuesAt(roots[r].val, <<Exact(2)>>) = {Some(2)}
\* The largest number of wildcard parts over the keys of S.
MaxWildcards(S) == SetMax({WildcardParts(k) : k \in KeysOf(S)})

\* C17: builder values are independent of each other: an insert through
\* one builder changes neither the tree nor the max_wildcard_depth another
\* builder would hand to build, and after it the other builder's
\* max_wildcard_depth is still the maximum wildcard count over the keys
\* present in its own tree.
C17_BuildersAreIndependent ==
    [][\A h2 \in LiveHandles :
         LET r2 == builders[h2].val.root IN
         \A k \in KeysOf(last'[r2]), v \in V :
            (/\ <<k, v>> \in last'[r2]
             /\ insert(h2, k, v))
            => \A h1 \in LiveHandles \ {h2} :
                 LET r1 == builders[h1].val.root IN
                 /\ builders'[h1] = builders[h1]
                 /\ roots'[r1] = roots[r1]
                 /\ builders'[h1].val.max_wildcard_depth
                       = MaxWildcards(last'[r1])]_vars
====
